---- MODULE Spec2Model ----
(***************************************************************************)
(* Ingestion core of miutifin-backend: the source adapters under           *)
(* app/routers (dice, eventbrite, xceed, partiful, resident_advisor, the   *)
(* synchronous OSM adapter and the background OSM places adapter), the     *)
(* ingestion-run record they keep and the rows they write to the store.    *)
(*                                                                         *)
(* One process is one HTTP invocation of an adapter.  Every call to the    *)
(* store (supabase ... .execute()) and every network fetch is one step of  *)
(* the process; the local computation up to the next call belongs to the   *)
(* same step.  A call may raise; a store call that raises has no effect    *)
(* (the store applies a single statement atomically or rejects it).        *)
(***************************************************************************)
EXTENDS Integers, Sequences, FiniteSets, TLC

\* ---------------------------------------------------------------- bounds
MaxProcs == 2    \* invocations that may be in progress at once
MaxCalls == 2    \* invocations in one behaviour
MaxItems == 2    \* candidates or elements one fetch yields
MaxListed == 3   \* candidates of a list page when only the list adapter runs
MaxFields == 2   \* fields of a payload handed to checksum on its own
MaxPromotes == 2 \* promote calls in one behaviour

Procs == 1..MaxProcs
Moderators == 1..MaxPromotes

\* ------------------------------------------------------------- constants
Null == "null"
NoTitle == ""
NoRun == 0
RetryTotal == 3   \* Retry(total=3) of the adapters' requests session

EventAdapters == {"dice", "eventbrite", "xceed", "partiful", "resident_advisor"}
SinglePageAdapters == {"eventbrite", "xceed", "partiful", "resident_advisor"}
Adapters == EventAdapters \cup {"osm", "places_osm"}

\* SOURCE_NAME of each adapter module
SOURCE_NAME(a) ==
  IF a \in {"osm", "places_osm"} THEN "openstreetmap" ELSE a

\* the confidence literal each adapter writes
Confidence(a) ==
  CASE a = "dice" -> 60
    [] a = "eventbrite" -> 80
    [] a = "xceed" -> 70
    [] a = "partiful" -> 85
    [] a = "resident_advisor" -> 90
    [] OTHER -> 50

\* the title written when the extracted title is falsy
PlaceholderTitle(a) ==
  CASE a = "eventbrite" -> "Eventbrite Event"
    [] a = "partiful" -> "Partiful Event"
    [] a = "resident_advisor" -> "Resident Advisor Event"
    [] OTHER -> NoTitle

\* ---------------------------------------------------------------- inputs
\* cities table: slug -> centroid present?  "nowhere" has no row.
CityRows == {"milano", "nocoord"}
HasCentroid(c) == c = "milano"
CitySlugs == CityRows \cup {"nowhere"}

EventUrls == {"u1", "u2"}
Titles == {NoTitle, "t1"}
BadUrl == "bad"
ListPage == "page"

\* the URL a request may carry, per adapter
RequestUrls(a) ==
  CASE a = "dice" -> {ListPage, BadUrl}
    [] a = "xceed" -> EventUrls \cup {BadUrl}
    [] a = "eventbrite" -> EventUrls
    [] a \in {"partiful", "resident_advisor"} -> {"u1"}
    [] OTHER -> {Null}

\* url.startswith(...) checks of ingest_dice and ingest_xceed
UrlAccepted(a, u) == ~(a \in {"dice", "xceed"} /\ u = BadUrl)

\* the event cards a list page may hold: link and extracted title
Candidates ==
  { [source_url |-> "u1", title |-> "t1"],
    [source_url |-> "u2", title |-> "t1"],
    [source_url |-> "u2", title |-> NoTitle] }

\* the elements Overpass may return: id, tags.name, tags.amenity, and whether
\* the element carries coordinates (lat/lon or center)
Elements ==
  { [id |-> "osm:1", name |-> "n1", amenity |-> "bar", coords |-> TRUE],
    [id |-> "osm:2", name |-> NoTitle, amenity |-> "bar", coords |-> TRUE],
    [id |-> "osm:3", name |-> "n2", amenity |-> "fast_food", coords |-> TRUE],
    [id |-> "osm:4", name |-> "n1", amenity |-> "pub", coords |-> FALSE] }

SeqsUpTo(S, n) == UNION {[1..k -> S] : k \in 0..n}

\* what the entry fetch can yield for an adapter, at most n candidates long
Pages(a, u, n) ==
  CASE a = "dice" -> SeqsUpTo(Candidates, n)
    [] a \in SinglePageAdapters -> {<<[source_url |-> u, title |-> t]>> : t \in Titles}
    [] OTHER -> SeqsUpTo(Elements, n)

\* --------------------------------------------------------------- state
VARIABLES
  sources,      \* "sources" table: set of source names that have a row
  categories,   \* "categories" table: sequence of [slug, name, type]
  ingestions,   \* "ingestions" table: sequence of run rows, id = index
  raw_items,    \* "raw_items" table: sequence of rows
  submissions,  \* "submissions" table: sequence of rows
  places,       \* "places" table: sequence of rows
  pc,           \* position of each invocation
  req,          \* request of each invocation: adapter, url, city_slug
  loc,          \* local variables of each invocation
  resp,         \* what the caller of each invocation received
  calls,        \* number of invocations so far
  hashing,      \* two payloads and the checksums computed for them so far
  parsing,      \* a text handed to a parser on its own, and what it returned
  events,       \* "events" table: sequence of event rows, id = index
  moderation    \* moderation[m]: the promote call moderator m makes, and how far it is

vars == <<sources, categories, ingestions, raw_items, submissions, places,
          pc, req, loc, resp, calls, hashing, parsing, events, moderation>>

store == <<sources, categories, ingestions, raw_items, submissions, places>>

NoReq == [adapter |-> Null, url |-> Null, city_slug |-> Null]

NoLoc == [ingestion_id |-> NoRun, items |-> <<>>, i |-> 1, existing |-> {},
          inserted |-> 0, skipped |-> 0, errors |-> 0, e |-> Null,
          category_id |-> 0, attempts |-> 0]

NoResp == [kind |-> "none", code |-> 0, found |-> 0,
           inserted |-> 0, skipped |-> 0, errors |-> 0]

HttpError(code) == [NoResp EXCEPT !.kind = "http_error", !.code = code]

\* no payload is being hashed on its own
NoHashing == [first |-> <<>>, second |-> <<>>, sums |-> <<>>]

\* a moderator that has made no promote call
NoModeration == [pc |-> "idle", endpoint |-> Null, id |-> 0, s |-> <<>>,
                 n |-> 1, entity |-> 0, code |-> 0]

\* a date and hour; NoDate is the None a parser returns
NoDate == [y |-> 0, m |-> 0, d |-> 0, h |-> 0]

\* no text is being parsed on its own
NoParsing == [fn |-> "none", adapter |-> "", text |-> <<>>, now |-> NoDate,
              done |-> FALSE, date |-> NoDate, price |-> <<>>]

Init ==
  /\ sources \in {EventAdapters \cup {"openstreetmap"}, {}}
  /\ categories = <<>>
  /\ ingestions = <<>>
  /\ raw_items = <<>>
  /\ submissions = <<>>
  /\ places = <<>>
  /\ pc = [p \in Procs |-> "idle"]
  /\ req = [p \in Procs |-> NoReq]
  /\ loc = [p \in Procs |-> NoLoc]
  /\ resp = [p \in Procs |-> NoResp]
  /\ calls = 0
  /\ events = <<>>
  /\ moderation = [m \in Moderators |-> NoModeration]
  /\ hashing = NoHashing
  /\ parsing = NoParsing

\* ------------------------------------------------------------- helpers
Adapter(p) == req[p].adapter
City(p) == req[p].city_slug
Item(p) == loc[p].items[loc[p].i]
Others(p) == Procs \ {p}

\* payload documents: the keys a document holds decide its kind
\* dice: {**item, **detail, start_at, price_min, price_max}
DicePayload(item) ==
  [kind |-> "item+detail", source_url |-> item.source_url, title |-> item.title]
\* eventbrite / partiful / resident_advisor: item["raw"] (no source_url key)
RawDoc(item) ==
  [kind |-> "raw", source_url |-> Null, title |-> item.title]
\* xceed: item["raw"] = {datetime_text, price_text}
XceedRawDoc(item) ==
  [kind |-> "raw_text", source_url |-> Null, title |-> Null]
\* xceed: payload_json, the ten normalized fields
XceedFields(item) ==
  [kind |-> "fields", source_url |-> item.source_url, title |-> item.title]
\* xceed: json_safe(item), the whole item with its nested raw
XceedItemDoc(item) ==
  [kind |-> "item", source_url |-> item.source_url, title |-> item.title]
\* osm: {name, tags, lat, lng}
OsmPayload(el) ==
  [kind |-> "osm", source_url |-> Null, title |-> el.name]

\* A Python dict is a sequence of <<key, value>> pairs with distinct keys,
\* in insertion order; a value is <<"s", scalar>> or <<"d", dict>>.
\* the dict the code builds from a document, in the order it writes the keys
Dict(doc) ==
  << <<"source_url", <<"s", doc.source_url>> >>,
     <<"title", <<"s", doc.title>> >>,
     <<"kind", <<"s", doc.kind>> >> >>

\* the order sort_keys puts string keys in
KeyOrder == <<"a", "b", "kind", "source_url", "title", "x", "y">>

Rank(k) == CHOOSE i \in 1..Len(KeyOrder) : KeyOrder[i] = k

KeysOf(d) == {d[i][1] : i \in 1..Len(d)}

ValueAt(d, k) == d[CHOOSE i \in 1..Len(d) : d[i][1] = k][2]

\* the keys of d in sorted order
SortedKeys(d) ==
  [i \in 1..Len(d) |->
     CHOOSE k \in KeysOf(d) :
       Cardinality({j \in KeysOf(d) : Rank(j) < Rank(k)}) = i - 1]

\* a serialization that keeps the insertion order of the keys
RECURSIVE json_dumps_unsorted(_)
json_dumps_unsorted(d) ==
  [i \in 1..Len(d) |->
     <<d[i][1],
       IF d[i][2][1] = "d"
       THEN <<"d", json_dumps_unsorted(d[i][2][2])>>
       ELSE d[i][2]>>]

\* json.dumps(payload, sort_keys=True): the members in key order, nested
\* dicts serialized the same way
RECURSIVE json_dumps(_)
json_dumps(d) ==
  [i \in 1..Len(d) |->
     LET k == SortedKeys(d)[i]
         v == ValueAt(d, k)
     IN <<k, IF v[1] = "d" THEN <<"d", json_dumps(v[2])>> ELSE v>>]

\* checksum(payload): sha256 of json.dumps(payload, sort_keys=True); the
\* digest stands for the text it was computed from
checksum(payload) == <<"sha256", json_dumps(payload)>>

\* the synthetic key of an OSM element: f"osm:{el['id']}"
OsmKey(el) == el.id

\* map_category of ingestions_osm.py: amenity -> category slug
map_category(el) ==
  CASE el.amenity \in {"bar", "pub"} -> "bar"
    [] el.amenity = "restaurant" -> "restaurant"
    [] el.amenity = "cafe" -> "cafe"
    [] el.amenity = "nightclub" -> "club"
    [] OTHER -> Null

\* OSM_CATEGORY_MAP / map_category of ingestions/places/osm.py
places_map_category(el) ==
  CASE el.amenity = "bar" -> "bar"
    [] el.amenity = "pub" -> "pub"
    [] el.amenity = "cafe" -> "cafe"
    [] el.amenity = "restaurant" -> "restaurant"
    [] el.amenity = "fast_food" -> "fast-food"
    [] el.amenity = "nightclub" -> "nightclub"
    [] el.amenity = "biergarten" -> "biergarten"
    [] OTHER -> Null

\* rows answering .eq("slug", slug) on categories, as ids
CategoryIds(slug) == {k \in 1..Len(categories) : categories[k].slug = slug}

\* the dedup query: source_url of the submissions of this source and city
ExistingUrls(a, c) ==
  {submissions[k].source_url : k \in
     {j \in 1..Len(submissions) :
        submissions[j].source = SOURCE_NAME(a) /\ submissions[j].city = c}}

\* the row an adapter inserts into raw_items for a candidate
RawRow(a, c, item) ==
  CASE a = "dice" ->
         [source |-> SOURCE_NAME(a), city |-> c, url |-> item.source_url,
          checksum |-> checksum(Dict(DicePayload(item))), payload |-> DicePayload(item)]
    [] a = "xceed" ->
         [source |-> SOURCE_NAME(a), city |-> c, url |-> item.source_url,
          checksum |-> checksum(Dict(XceedFields(item))), payload |-> XceedRawDoc(item)]
    [] OTHER ->
         [source |-> SOURCE_NAME(a), city |-> c, url |-> item.source_url,
          checksum |-> checksum(Dict(RawDoc(item))), payload |-> RawDoc(item)]

\* the row the sync OSM adapter inserts into raw_items for an element
OsmRawRow(c, el) ==
  [source |-> "openstreetmap", city |-> c, url |-> OsmKey(el),
   checksum |-> checksum(Dict(OsmPayload(el))), payload |-> OsmPayload(el)]

\* the title column of the submission an adapter writes
SubmissionTitle(a, item) ==
  IF a \in {"eventbrite", "partiful", "resident_advisor"} /\ item.title = NoTitle
  THEN PlaceholderTitle(a)
  ELSE item.title

\* a submissions row that leaves the run id out
SubmissionRowWithoutRun(a, c, item, run) ==
  [city |-> c, source |-> SOURCE_NAME(a), source_url |-> item.source_url,
   title |-> SubmissionTitle(a, item),
   source_payload |-> CASE a = "dice" -> DicePayload(item)
                        [] a = "xceed" -> XceedItemDoc(item)
                        [] OTHER -> RawDoc(item),
   ingestion_id |-> NoRun, confidence |-> Confidence(a), status |-> "visible",
   promoted_entity |-> <<>>]

\* the row an adapter inserts into submissions for a candidate
SubmissionRow(a, c, item, run) ==
  [city |-> c, source |-> SOURCE_NAME(a), source_url |-> item.source_url,
   title |-> SubmissionTitle(a, item),
   source_payload |-> CASE a = "dice" -> DicePayload(item)
                        [] a = "xceed" -> XceedItemDoc(item)
                        [] OTHER -> RawDoc(item),
   ingestion_id |-> run, confidence |-> Confidence(a), status |-> "visible",
   promoted_entity |-> <<>>]

\* a loop condition that forgets the title test of dice and xceed
SkipsCandidateNoTitleTest(a, item, existing) ==
  CASE a \in EventAdapters -> item.source_url \in existing
    [] a = "osm" -> item.name = NoTitle \/ map_category(item) = Null
    [] OTHER -> item.name = NoTitle \/ places_map_category(item) = Null

\* a skip test that looks only at the title, never at the existing URLs
SkipsCandidateNoDedup(a, item, existing) ==
  CASE a \in {"dice", "xceed"} -> item.title = NoTitle
    [] a \in {"eventbrite", "partiful", "resident_advisor"} -> FALSE
    [] a = "osm" -> item.name = NoTitle \/ map_category(item) = Null
    [] OTHER -> item.name = NoTitle \/ places_map_category(item) = Null

\* the loop condition that discards a candidate before any write
SkipsCandidate(a, item, existing) ==
  CASE a \in {"dice", "xceed"} ->
         item.title = NoTitle \/ item.source_url \in existing
    [] a \in {"eventbrite", "partiful", "resident_advisor"} ->
         item.source_url \in existing
    [] a = "osm" -> item.name = NoTitle \/ map_category(item) = Null
    [] OTHER -> item.name = NoTitle \/ places_map_category(item) = Null

\* --------------------------------------------------------- bookkeeping
\* a summary whose found forgets the candidates that raised
SummaryFoundWithoutErrors(a, l) ==
  [kind |-> "summary", code |-> 200,
   found |-> l.inserted + l.skipped,
   inserted |-> l.inserted, skipped |-> l.skipped, errors |-> l.errors]

\* the summary a handler returns
Summary(a, l) ==
  [kind |-> "summary", code |-> 200,
   found |-> CASE a = "dice" -> Len(l.items) [] a = "xceed" -> 1 [] OTHER -> 0,
   inserted |-> l.inserted, skipped |-> l.skipped, errors |-> l.errors]

\* the handler returns or raises: the caller receives r
Finish(p, r) ==
  /\ pc' = [pc EXCEPT ![p] = "done"]
  /\ resp' = [resp EXCEPT ![p] = r]
  /\ UNCHANGED loc

\* the background task ends: nobody receives anything
EndTask(p) ==
  /\ pc' = [pc EXCEPT ![p] = "done"]
  /\ UNCHANGED <<loc, resp>>

Goto(p, label, l) ==
  /\ pc' = [pc EXCEPT ![p] = label]
  /\ loc' = [loc EXCEPT ![p] = l]
  /\ UNCHANGED resp

\* an exception reaches the outer "except Exception as e" of the handler
Raise(p, text) ==
  Goto(p, "close_failed", [loc[p] EXCEPT !.e = text, !.attempts = 0])

\* the candidate is over: count it in one counter and move to the next
Counted(l, counter) ==
  [l EXCEPT ![counter] = @ + 1, !.i = @ + 1, !.category_id = 0,
            !.attempts = 0]

\* an exception while processing one candidate: the inner "except Exception"
\* of the adapters that have one, the outer handler in the others
CandidateFails(p, text) ==
  IF Adapter(p) \in SinglePageAdapters
  THEN Raise(p, text)
  ELSE Goto(p, "loop", Counted(loc[p], "errors"))

\* ------------------------------------------------------------- actions
\* a request arrives at a free worker: POST /ingestions/<adapter>
\* {url, city_slug}.  The lowest free worker takes it.
Free(p) == pc[p] \in {"idle", "done"}

Request(p, As, Cs) ==
  /\ Free(p)
  /\ \A q \in 1..(p - 1) : ~Free(q)
  /\ calls < MaxCalls
  /\ calls' = calls + 1
  /\ \E a \in As : \E u \in RequestUrls(a) : \E c \in Cs :
       /\ req' = [req EXCEPT ![p] = [adapter |-> a, url |-> u, city_slug |-> c]]
       /\ loc' = [loc EXCEPT ![p] = NoLoc]
       /\ IF ~UrlAccepted(a, u)
          THEN /\ pc' = [pc EXCEPT ![p] = "done"]
               /\ resp' = [resp EXCEPT ![p] = HttpError(400)]
          ELSE /\ pc' = [pc EXCEPT ![p] = "city"]
               /\ resp' = [resp EXCEPT ![p] =
                    IF a = "places_osm"
                    THEN [NoResp EXCEPT !.kind = "started", !.code = 200]
                    ELSE NoResp]
  /\ UNCHANGED store

Invoke(p) == Request(p, Adapters, CitySlugs)

\* a request to the list adapter for a city that exists
InvokeDice(p) == Request(p, {"dice"}, {"milano"})

\* resolve the city by slug (and, for the places adapter, its centroid)
ResolveCity(p) ==
  /\ pc[p] = "city"
  /\ UNCHANGED <<store, req, calls>>
  /\ IF Adapter(p) = "places_osm"
     THEN IF City(p) \notin CityRows \/ ~HasCentroid(City(p))
          THEN EndTask(p)
          ELSE Goto(p, "source", loc[p])
     ELSE \/ /\ City(p) \notin CityRows
             /\ Finish(p, HttpError(404))
          \/ /\ City(p) \in CityRows
             /\ Goto(p, "source", loc[p])

\* a source resolution that sends every adapter to the lazy creation
ResolveSourceLazyEverywhere(p) ==
  /\ pc[p] = "source"
  /\ UNCHANGED <<store, req, calls>>
  /\ IF SOURCE_NAME(Adapter(p)) \in sources
     THEN Goto(p, IF Adapter(p) = "places_osm" THEN "fetch" ELSE "start", loc[p])
     ELSE Goto(p, "create_source", loc[p])

\* resolve the source row by SOURCE_NAME
ResolveSource(p) ==
  /\ pc[p] = "source"
  /\ UNCHANGED <<store, req, calls>>
  /\ IF Adapter(p) = "places_osm"
     THEN IF SOURCE_NAME(Adapter(p)) \in sources
          THEN Goto(p, "fetch", loc[p])
          ELSE Goto(p, "create_source", loc[p])
     ELSE IF SOURCE_NAME(Adapter(p)) \in sources
          THEN Goto(p, "start", loc[p])
          ELSE Finish(p, HttpError(400))

\* run_osm_ingestion creates the missing source row
CreateSource(p) ==
  /\ pc[p] = "create_source"
  /\ UNCHANGED <<categories, ingestions, raw_items, submissions, places, req, calls>>
  /\ \/ /\ sources' = sources \cup {SOURCE_NAME(Adapter(p))}
        /\ Goto(p, "fetch", loc[p])
     \/ /\ UNCHANGED sources
        /\ EndTask(p)

\* insert the ingestions row with status running
StartRun(p) ==
  /\ pc[p] = "start"
  /\ UNCHANGED <<sources, categories, raw_items, submissions, places, req, calls>>
  /\ \/ /\ ingestions' = Append(ingestions,
             [source |-> SOURCE_NAME(Adapter(p)), city |-> City(p),
              status |-> "running", ended_at |-> Null, error |-> Null])
        /\ Goto(p, "fetch", [loc[p] EXCEPT !.ingestion_id = Len(ingestions) + 1])
     \/ /\ UNCHANGED ingestions
        /\ Finish(p, HttpError(500))

\* what the entry fetch may raise: a transport or status error, and for
\* resident_advisor the HTTPException(502) fetch_ra_event raises on a 403
FetchErrors(a) ==
  IF a = "resident_advisor" THEN {"FetchError", "AntiBot403"} ELSE {"FetchError"}

\* the adapters whose fetches go through the session mounted with
\* Retry(total=3, status_forcelist=[429, 500, 502, 503, 504]); the two OSM
\* adapters call requests.post / httpx directly
UsesRetrySession(a) == a \in EventAdapters

\* the entry fetch failed for good: the handler's except block, or the
\* "except Exception: return" of the background task
FetchFails(p, text) ==
  IF Adapter(p) = "places_osm"
  THEN /\ pc' = [pc EXCEPT ![p] = "done"]
       /\ loc' = [loc EXCEPT ![p] = [@ EXCEPT !.e = text, !.attempts = 0]]
       /\ UNCHANGED resp
  ELSE Raise(p, text)

\* the entry fetch: the list page, the event page or the Overpass query.
\* One step is one request: it yields the page, or a status of the
\* forcelist (retried by the session while the budget lasts), or a failure
\* that is raised at once.
Fetch(p, n) ==
  /\ pc[p] = "fetch"
  /\ UNCHANGED <<store, req, calls>>
  /\ \/ /\ Adapter(p) \in {"osm", "places_osm"} => HasCentroid(City(p))
        /\ \E page \in Pages(Adapter(p), req[p].url, n) :
             Goto(p, IF Adapter(p) \in EventAdapters THEN "dedup" ELSE "loop",
                  [loc[p] EXCEPT !.items = page, !.attempts = 0])
     \/ IF UsesRetrySession(Adapter(p))
        THEN IF loc[p].attempts < RetryTotal
             THEN Goto(p, "fetch", [loc[p] EXCEPT !.attempts = @ + 1])
             ELSE FetchFails(p, "RetryError")
        ELSE FetchFails(p, "HTTP503")
     \/ \E text \in FetchErrors(Adapter(p)) : FetchFails(p, text)

FetchPage(p) == Fetch(p, MaxItems)

FetchList(p) == Fetch(p, MaxListed)

\* load the source URLs already among this source's submissions for the city
DedupQuery(p) ==
  /\ pc[p] = "dedup"
  /\ UNCHANGED <<store, req, calls>>
  /\ \/ Goto(p, "loop",
             [loc[p] EXCEPT !.existing = ExistingUrls(Adapter(p), City(p))])
     \/ Raise(p, "DedupQueryError")

\* the head of the candidate loop: leave it, skip the candidate or process it
NextItem(p) ==
  /\ pc[p] = "loop"
  /\ UNCHANGED <<store, req, calls>>
  /\ IF loc[p].i > Len(loc[p].items)
     THEN IF Adapter(p) = "places_osm"
          THEN EndTask(p)
          ELSE Goto(p, "close_ok", loc[p])
     ELSE IF SkipsCandidate(Adapter(p), Item(p), loc[p].existing)
          THEN Goto(p, "loop", Counted(loc[p], "skipped"))
          ELSE Goto(p, CASE Adapter(p) = "dice" -> "detail"
                         [] Adapter(p) = "places_osm" -> "get_category"
                         [] OTHER -> "raw",
                    loc[p])

\* dice: the second fetch, of the candidate's own page
FetchDetail(p) ==
  /\ pc[p] = "detail"
  /\ UNCHANGED <<store, req, calls>>
  /\ \/ Goto(p, "raw", [loc[p] EXCEPT !.attempts = 0])
     \/ IF loc[p].attempts < RetryTotal
        THEN Goto(p, "detail", [loc[p] EXCEPT !.attempts = @ + 1])
        ELSE CandidateFails(p, "RetryError")
     \/ CandidateFails(p, "FetchError")

\* insert the raw_items row of the candidate
InsertRaw(p) ==
  /\ pc[p] = "raw"
  /\ UNCHANGED <<sources, categories, ingestions, submissions, places, req, calls>>
  /\ \/ /\ raw_items' = Append(raw_items,
             IF Adapter(p) = "osm"
             THEN OsmRawRow(City(p), Item(p))
             ELSE RawRow(Adapter(p), City(p), Item(p)))
        /\ Goto(p, IF Adapter(p) = "osm" THEN "category" ELSE "sub", loc[p])
     \/ /\ UNCHANGED raw_items
        /\ CandidateFails(p, "InsertError")

\* an insert that also resets the status of the source's earlier submissions
InsertSubmissionRefreshing(p) ==
  /\ pc[p] = "sub"
  /\ UNCHANGED <<sources, categories, ingestions, raw_items, places, req, calls>>
  /\ \/ /\ submissions' =
             Append([k \in 1..Len(submissions) |->
                       IF submissions[k].source = SOURCE_NAME(Adapter(p))
                       THEN [submissions[k] EXCEPT !.status = "visible"]
                       ELSE submissions[k]],
                    SubmissionRow(Adapter(p), City(p), Item(p), loc[p].ingestion_id))
        /\ Goto(p, "loop", Counted(loc[p], "inserted"))
     \/ /\ UNCHANGED submissions
        /\ CandidateFails(p, "InsertError")

\* insert the submissions row of the candidate
InsertSubmission(p) ==
  /\ pc[p] = "sub"
  /\ UNCHANGED <<sources, categories, ingestions, raw_items, places, req, calls>>
  /\ \/ /\ submissions' = Append(submissions,
             SubmissionRow(Adapter(p), City(p), Item(p), loc[p].ingestion_id))
        /\ Goto(p, "loop", Counted(loc[p], "inserted"))
     \/ /\ UNCHANGED submissions
        /\ CandidateFails(p, "InsertError")

\* sync OSM: read the category id by slug, after the raw_items insert
LookupCategory(p) ==
  /\ pc[p] = "category"
  /\ UNCHANGED <<store, req, calls>>
  /\ LET ids == CategoryIds(map_category(Item(p))) IN
     \/ /\ ids = {}
        /\ Goto(p, "loop", Counted(loc[p], "skipped"))
     \/ /\ Cardinality(ids) = 1
        /\ \E k \in ids : Goto(p, "place", [loc[p] EXCEPT !.category_id = k])
     \/ CandidateFails(p, "StoreError")

\* the place row both OSM adapters write; source_confidence holds the value
\* the row carries for that column: the sync adapter writes 50, the places
\* adapter does not write the column
PlaceRow(a, c, el, cat) ==
  [city |-> c, category_id |-> cat, name |-> el.name, slug |-> el.name,
   coords |-> el.coords,
   source_confidence |-> IF a = "osm" THEN {Confidence(a)} ELSE {}]

\* sync OSM: insert the place
InsertPlace(p) ==
  /\ pc[p] = "place"
  /\ Adapter(p) = "osm"
  /\ UNCHANGED <<sources, categories, ingestions, raw_items, submissions, req, calls>>
  /\ \/ /\ places' = Append(places,
             PlaceRow("osm", City(p), Item(p), loc[p].category_id))
        /\ Goto(p, "loop", Counted(loc[p], "inserted"))
     \/ /\ UNCHANGED places
        /\ CandidateFails(p, "InsertError")

\* places adapter, after the category is known: elements without
\* coordinates are skipped, the others go on to the upsert
WithCategory(p, cat) ==
  IF ~Item(p).coords
  THEN Goto(p, "loop", Counted(loc[p], "skipped"))
  ELSE Goto(p, "place", [loc[p] EXCEPT !.category_id = cat])

\* get_or_create_category: the lookup by slug
GetCategory(p) ==
  /\ pc[p] = "get_category"
  /\ UNCHANGED <<store, req, calls>>
  /\ LET ids == CategoryIds(places_map_category(Item(p))) IN
     \/ /\ ids # {}
        /\ WithCategory(p, CHOOSE k \in ids : \A j \in ids : k <= j)
     \/ /\ ids = {}
        /\ Goto(p, "create_category", loc[p])
     \/ CandidateFails(p, "StoreError")

\* the human-readable name OSM_CATEGORY_MAP gives a slug
CategoryName(slug) ==
  CASE slug = "bar" -> "Bar"
    [] slug = "pub" -> "Pub"
    [] slug = "cafe" -> "Caffe"
    [] slug = "restaurant" -> "Ristorante"
    [] slug = "fast-food" -> "Fast Food"
    [] slug = "nightclub" -> "Nightclub"
    [] OTHER -> "Birreria"

\* get_or_create_category: the insert of the missing category
CreateCategory(p) ==
  /\ pc[p] = "create_category"
  /\ UNCHANGED <<sources, ingestions, raw_items, submissions, places, req, calls>>
  /\ \/ /\ categories' = Append(categories,
             [slug |-> places_map_category(Item(p)),
              name |-> CategoryName(places_map_category(Item(p))),
              type |-> "place"])
        /\ WithCategory(p, Len(categories) + 1)
     \/ /\ UNCHANGED categories
        /\ CandidateFails(p, "InsertError")

\* upsert(row, on_conflict="city_id,slug"): replace the row of the same
\* city and slug or append a new one
Upsert(rows, row) ==
  IF \E k \in 1..Len(rows) : rows[k].city = row.city /\ rows[k].slug = row.slug
  THEN [k \in 1..Len(rows) |->
          IF rows[k].city = row.city /\ rows[k].slug = row.slug
          THEN row ELSE rows[k]]
  ELSE Append(rows, row)

\* places adapter: upsert the place
UpsertPlace(p) ==
  /\ pc[p] = "place"
  /\ Adapter(p) = "places_osm"
  /\ UNCHANGED <<sources, categories, ingestions, raw_items, submissions, req, calls>>
  /\ \/ /\ places' = Upsert(places,
             PlaceRow("places_osm", City(p), Item(p), loc[p].category_id))
        /\ Goto(p, "loop", Counted(loc[p], "inserted"))
     \/ /\ UNCHANGED places
        /\ CandidateFails(p, "InsertError")

\* a closing write that leaves the error column out
CloseRunNoError(runs, id, status, error) ==
  [runs EXCEPT ![id] = [@ EXCEPT !.status = status, !.ended_at = "ts"]]

\* the write that closes a run
CloseRun(runs, id, status, error) ==
  [runs EXCEPT ![id] = [@ EXCEPT !.status = status, !.ended_at = "ts",
                                 !.error = error]]

\* a success write that reaches the store and raises all the same
CloseSuccessAppliedAndRaised(p) ==
  /\ pc[p] = "close_ok"
  /\ UNCHANGED <<sources, categories, raw_items, submissions, places, req, calls>>
  /\ ingestions' = CloseRun(ingestions, loc[p].ingestion_id, "success",
                            ingestions[loc[p].ingestion_id].error)
  /\ \/ Finish(p, Summary(Adapter(p), loc[p]))
     \/ Raise(p, "CloseWriteError")

\* the run-closing write of the normal path: status success
CloseSuccess(p) ==
  /\ pc[p] = "close_ok"
  /\ UNCHANGED <<sources, categories, raw_items, submissions, places, req, calls>>
  /\ \/ /\ ingestions' = CloseRun(ingestions, loc[p].ingestion_id, "success",
                                  ingestions[loc[p].ingestion_id].error)
        /\ Finish(p, Summary(Adapter(p), loc[p]))
     \/ /\ UNCHANGED ingestions
        /\ Raise(p, "CloseWriteError")

\* the status the framework answers with when the handler raises e: the
\* status_code of an HTTPException, 500 for any other exception
StatusOf(e) == IF e = "AntiBot403" THEN 502 ELSE 500

\* an outer handler that marks the run failed and returns the summary
CloseFailedSwallowed(p) ==
  /\ pc[p] = "close_failed"
  /\ UNCHANGED <<sources, categories, raw_items, submissions, places, req, calls>>
  /\ \/ ingestions' = CloseRun(ingestions, loc[p].ingestion_id, "failed", loc[p].e)
     \/ UNCHANGED ingestions
  /\ Finish(p, Summary(Adapter(p), loc[p]))

\* the outer exception handler: mark the run failed, then re-raise
CloseFailed(p) ==
  /\ pc[p] = "close_failed"
  /\ UNCHANGED <<sources, categories, raw_items, submissions, places, req, calls>>
  /\ \/ ingestions' = CloseRun(ingestions, loc[p].ingestion_id, "failed", loc[p].e)
     \/ UNCHANGED ingestions
  /\ Finish(p, HttpError(StatusOf(loc[p].e)))

\* invocations that do not overlap: one starts when the others are over
Quiet(p) == \A q \in Others(p) : Free(q)

\* each invocation is one sequential unit of work; invocations follow one
\* another
Next ==
  \/ \E p \in Procs : Quiet(p) /\ Invoke(p) /\ UNCHANGED <<hashing, parsing, events, moderation>>
  \/ \E p \in Procs : ResolveCity(p) /\ UNCHANGED <<hashing, parsing, events, moderation>>
  \/ \E p \in Procs : ResolveSource(p) /\ UNCHANGED <<hashing, parsing, events, moderation>>
  \/ \E p \in Procs : CreateSource(p) /\ UNCHANGED <<hashing, parsing, events, moderation>>
  \/ \E p \in Procs : StartRun(p) /\ UNCHANGED <<hashing, parsing, events, moderation>>
  \/ \E p \in Procs : FetchPage(p) /\ UNCHANGED <<hashing, parsing, events, moderation>>
  \/ \E p \in Procs : DedupQuery(p) /\ UNCHANGED <<hashing, parsing, events, moderation>>
  \/ \E p \in Procs : NextItem(p) /\ UNCHANGED <<hashing, parsing, events, moderation>>
  \/ \E p \in Procs : FetchDetail(p) /\ UNCHANGED <<hashing, parsing, events, moderation>>
  \/ \E p \in Procs : InsertRaw(p) /\ UNCHANGED <<hashing, parsing, events, moderation>>
  \/ \E p \in Procs : InsertSubmission(p) /\ UNCHANGED <<hashing, parsing, events, moderation>>
  \/ \E p \in Procs : LookupCategory(p) /\ UNCHANGED <<hashing, parsing, events, moderation>>
  \/ \E p \in Procs : InsertPlace(p) /\ UNCHANGED <<hashing, parsing, events, moderation>>
  \/ \E p \in Procs : GetCategory(p) /\ UNCHANGED <<hashing, parsing, events, moderation>>
  \/ \E p \in Procs : CreateCategory(p) /\ UNCHANGED <<hashing, parsing, events, moderation>>
  \/ \E p \in Procs : UpsertPlace(p) /\ UNCHANGED <<hashing, parsing, events, moderation>>
  \/ \E p \in Procs : CloseSuccess(p) /\ UNCHANGED <<hashing, parsing, events, moderation>>
  \/ \E p \in Procs : CloseFailed(p) /\ UNCHANGED <<hashing, parsing, events, moderation>>

Spec == Init /\ [][Next]_vars

\* only the list adapter is invoked, on longer pages
DiceNext ==
  \/ \E p \in Procs : Quiet(p) /\ InvokeDice(p) /\ UNCHANGED <<hashing, parsing, events, moderation>>
  \/ \E p \in Procs : ResolveCity(p) /\ UNCHANGED <<hashing, parsing, events, moderation>>
  \/ \E p \in Procs : ResolveSource(p) /\ UNCHANGED <<hashing, parsing, events, moderation>>
  \/ \E p \in Procs : StartRun(p) /\ UNCHANGED <<hashing, parsing, events, moderation>>
  \/ \E p \in Procs : FetchList(p) /\ UNCHANGED <<hashing, parsing, events, moderation>>
  \/ \E p \in Procs : DedupQuery(p) /\ UNCHANGED <<hashing, parsing, events, moderation>>
  \/ \E p \in Procs : NextItem(p) /\ UNCHANGED <<hashing, parsing, events, moderation>>
  \/ \E p \in Procs : FetchDetail(p) /\ UNCHANGED <<hashing, parsing, events, moderation>>
  \/ \E p \in Procs : InsertRaw(p) /\ UNCHANGED <<hashing, parsing, events, moderation>>
  \/ \E p \in Procs : InsertSubmission(p) /\ UNCHANGED <<hashing, parsing, events, moderation>>
  \/ \E p \in Procs : CloseSuccess(p) /\ UNCHANGED <<hashing, parsing, events, moderation>>
  \/ \E p \in Procs : CloseFailed(p) /\ UNCHANGED <<hashing, parsing, events, moderation>>

DiceSpec == Init /\ [][DiceNext]_vars

\* a handler that has been called runs to its return or raise: the server
\* keeps executing it, fetches end (timeout, bounded retries), store calls
\* answer or raise
FairDiceSpec == DiceSpec /\ WF_vars(DiceNext)

\* ------------------------------------------------ geodata runs and the taxonomy
\* what an administrator may post to /admin/categories
AdminCategories ==
  [slug : {"bar", "restaurant"}, name : {"Serata"}, type : {"event", "place"}]

\* POST /admin/categories: insert the row as given
create_category ==
  /\ \A p \in Procs : Free(p)
  /\ calls < MaxCalls
  /\ calls' = calls + 1
  /\ \/ \E row \in AdminCategories : categories' = Append(categories, row)
     \/ UNCHANGED categories
  /\ UNCHANGED <<sources, ingestions, raw_items, submissions, places, pc, req, loc, resp>>

\* a request to one of the two geodata adapters for a city that exists
InvokeGeodata(p) == Request(p, {"osm", "places_osm"}, {"milano"})

GeoNext ==
  \/ create_category /\ UNCHANGED <<hashing, parsing, events, moderation>>
  \/ \E p \in Procs : Quiet(p) /\ InvokeGeodata(p) /\ UNCHANGED <<hashing, parsing, events, moderation>>
  \/ \E p \in Procs : ResolveCity(p) /\ UNCHANGED <<hashing, parsing, events, moderation>>
  \/ \E p \in Procs : ResolveSource(p) /\ UNCHANGED <<hashing, parsing, events, moderation>>
  \/ \E p \in Procs : CreateSource(p) /\ UNCHANGED <<hashing, parsing, events, moderation>>
  \/ \E p \in Procs : StartRun(p) /\ UNCHANGED <<hashing, parsing, events, moderation>>
  \/ \E p \in Procs : FetchPage(p) /\ UNCHANGED <<hashing, parsing, events, moderation>>
  \/ \E p \in Procs : NextItem(p) /\ UNCHANGED <<hashing, parsing, events, moderation>>
  \/ \E p \in Procs : InsertRaw(p) /\ UNCHANGED <<hashing, parsing, events, moderation>>
  \/ \E p \in Procs : LookupCategory(p) /\ UNCHANGED <<hashing, parsing, events, moderation>>
  \/ \E p \in Procs : InsertPlace(p) /\ UNCHANGED <<hashing, parsing, events, moderation>>
  \/ \E p \in Procs : GetCategory(p) /\ UNCHANGED <<hashing, parsing, events, moderation>>
  \/ \E p \in Procs : CreateCategory(p) /\ UNCHANGED <<hashing, parsing, events, moderation>>
  \/ \E p \in Procs : UpsertPlace(p) /\ UNCHANGED <<hashing, parsing, events, moderation>>
  \/ \E p \in Procs : CloseSuccess(p) /\ UNCHANGED <<hashing, parsing, events, moderation>>
  \/ \E p \in Procs : CloseFailed(p) /\ UNCHANGED <<hashing, parsing, events, moderation>>

GeoSpec == Init /\ [][GeoNext]_vars

\* -------------------------------------------------------------- moderation
\* the three promote endpoints: POST /submissions/{id}/promote,
\* POST /admin/submissions/{id}/promote/event and .../promote/place
Endpoints == {"promote", "promote_event", "promote_place"}

ToEvent(m) == moderation[m].endpoint \in {"promote", "promote_event"}

\* the call ends with the given status code
Answer(m, code) ==
  moderation' = [moderation EXCEPT ![m].pc = "done", ![m].code = code]

\* a promote request arrives for a submission id
Promote(m) ==
  /\ moderation[m].pc = "idle"
  /\ \A q \in 1..(m - 1) : moderation[q].pc # "idle"
  /\ \E e \in Endpoints : \E id \in 1..(Len(submissions) + 1) :
       moderation' = [moderation EXCEPT ![m].pc = "read", ![m].endpoint = e,
                                        ![m].id = id]
  /\ UNCHANGED <<store, pc, req, loc, resp, calls, hashing, parsing, events>>

\* select the submission by id; the two event endpoints refuse a submission
\* whose status is promoted, the place endpoint does not look at the status
FetchSubmission(m) ==
  /\ moderation[m].pc = "read"
  /\ UNCHANGED <<store, pc, req, loc, resp, calls, hashing, parsing, events>>
  /\ LET id == moderation[m].id IN
     \/ /\ id \notin 1..Len(submissions)
        /\ \E code \in {404, 500} : Answer(m, code)
     \/ /\ id \in 1..Len(submissions)
        /\ IF ToEvent(m) /\ submissions[id].status = "promoted"
           THEN Answer(m, 400)
           ELSE moderation' =
                  [moderation EXCEPT ![m].s = <<submissions[id]>>,
                     ![m].pc = IF moderation[m].endpoint = "promote_event"
                               THEN "slug" ELSE "insert"]
     \/ Answer(m, 500)

\* the slug of an event: the slugified title, with "-n" appended from n = 2
EventSlug(title, n) == <<title, n>>

\* unique_event_slug: one turn of the loop
unique_event_slug(m) ==
  /\ moderation[m].pc = "slug"
  /\ UNCHANGED <<store, pc, req, loc, resp, calls, hashing, parsing, events>>
  /\ LET s == moderation[m].s[1]
         exists == {k \in 1..Len(events) :
                      /\ events[k].city = s.city
                      /\ events[k].slug = EventSlug(s.title, moderation[m].n)}
     IN \/ /\ exists = {}
           /\ moderation' = [moderation EXCEPT ![m].pc = "insert"]
        \/ /\ exists # {}
           /\ moderation' = [moderation EXCEPT ![m].n = @ + 1]
        \/ Answer(m, 500)

\* the events row a promote call inserts
EventRow(s, n) ==
  [city |-> s.city, title |-> s.title, slug |-> EventSlug(s.title, n),
   source_url |-> s.source_url]

\* the places row promote_submission_to_place inserts: no category, no slug,
\* the submission's coordinates (none for an ingested one) and its confidence
PromotedPlaceRow(s) ==
  [city |-> s.city, category_id |-> 0, name |-> s.title, slug |-> Null,
   coords |-> FALSE, source_confidence |-> {s.confidence}]

\* insert the event or the place
InsertEntity(m) ==
  /\ moderation[m].pc = "insert"
  /\ UNCHANGED <<sources, categories, ingestions, raw_items, submissions,
                 pc, req, loc, resp, calls, hashing, parsing>>
  /\ LET s == moderation[m].s[1] IN
     \/ /\ ToEvent(m)
        /\ events' = Append(events, EventRow(s, moderation[m].n))
        /\ UNCHANGED places
        /\ moderation' = [moderation EXCEPT ![m].pc = "update",
                                            ![m].entity = Len(events) + 1]
     \/ /\ ~ToEvent(m)
        /\ places' = Append(places, PromotedPlaceRow(s))
        /\ UNCHANGED events
        /\ moderation' = [moderation EXCEPT ![m].pc = "update",
                                            ![m].entity = Len(places) + 1]
     \/ /\ UNCHANGED <<events, places>>
        /\ Answer(m, 500)

\* the update of the submission: status promoted, and for an event the
\* promoted entity
MarkPromoted(m) ==
  /\ moderation[m].pc = "update"
  /\ UNCHANGED <<sources, categories, ingestions, raw_items, places,
                 pc, req, loc, resp, calls, hashing, parsing, events>>
  /\ \/ /\ submissions' =
             [submissions EXCEPT ![moderation[m].id] =
                [@ EXCEPT !.status = "promoted",
                          !.promoted_entity =
                             IF ToEvent(m) THEN <<"event", moderation[m].entity>>
                             ELSE @]]
        /\ Answer(m, 200)
     \/ /\ UNCHANGED submissions
        /\ Answer(m, 500)

\* a request to a page adapter for a city that exists
InvokeModerated(p) == Request(p, {"eventbrite"}, {"milano"})

\* a promote call is in progress
Moderating == \E m \in Moderators : moderation[m].pc \notin {"idle", "done"}

\* no ingestion is in progress
NoIngestion == \A p \in Procs : Free(p)

\* ingestion runs follow one another; between them moderators promote what
\* the runs wrote, and their promote calls interleave
ModerationNext ==
  \/ \E p \in Procs : Quiet(p) /\ ~Moderating /\ InvokeModerated(p) /\ UNCHANGED <<hashing, parsing, events, moderation>>
  \/ \E p \in Procs : ResolveCity(p) /\ UNCHANGED <<hashing, parsing, events, moderation>>
  \/ \E p \in Procs : ResolveSource(p) /\ UNCHANGED <<hashing, parsing, events, moderation>>
  \/ \E p \in Procs : StartRun(p) /\ UNCHANGED <<hashing, parsing, events, moderation>>
  \/ \E p \in Procs : FetchPage(p) /\ UNCHANGED <<hashing, parsing, events, moderation>>
  \/ \E p \in Procs : DedupQuery(p) /\ UNCHANGED <<hashing, parsing, events, moderation>>
  \/ \E p \in Procs : NextItem(p) /\ UNCHANGED <<hashing, parsing, events, moderation>>
  \/ \E p \in Procs : InsertRaw(p) /\ UNCHANGED <<hashing, parsing, events, moderation>>
  \/ \E p \in Procs : InsertSubmission(p) /\ UNCHANGED <<hashing, parsing, events, moderation>>
  \/ \E p \in Procs : CloseSuccess(p) /\ UNCHANGED <<hashing, parsing, events, moderation>>
  \/ \E p \in Procs : CloseFailed(p) /\ UNCHANGED <<hashing, parsing, events, moderation>>
  \/ \E m \in Moderators : NoIngestion /\ Promote(m)
  \/ \E m \in Moderators : FetchSubmission(m)
  \/ \E m \in Moderators : unique_event_slug(m)
  \/ \E m \in Moderators : InsertEntity(m)
  \/ \E m \in Moderators : MarkPromoted(m)

ModerationSpec == Init /\ [][ModerationNext]_vars

\* a request to the list adapter or to a single-page adapter, same city
InvokeOverlapping(p) == Request(p, {"dice", "resident_advisor"}, {"milano"})

\* invocations served at the same time: a request may arrive while another
\* is in progress, and their steps interleave
ConcNext ==
  \/ \E p \in Procs : InvokeOverlapping(p) /\ UNCHANGED <<hashing, parsing, events, moderation>>
  \/ \E p \in Procs : ResolveCity(p) /\ UNCHANGED <<hashing, parsing, events, moderation>>
  \/ \E p \in Procs : ResolveSource(p) /\ UNCHANGED <<hashing, parsing, events, moderation>>
  \/ \E p \in Procs : StartRun(p) /\ UNCHANGED <<hashing, parsing, events, moderation>>
  \/ \E p \in Procs : FetchPage(p) /\ UNCHANGED <<hashing, parsing, events, moderation>>
  \/ \E p \in Procs : DedupQuery(p) /\ UNCHANGED <<hashing, parsing, events, moderation>>
  \/ \E p \in Procs : NextItem(p) /\ UNCHANGED <<hashing, parsing, events, moderation>>
  \/ \E p \in Procs : FetchDetail(p) /\ UNCHANGED <<hashing, parsing, events, moderation>>
  \/ \E p \in Procs : InsertRaw(p) /\ UNCHANGED <<hashing, parsing, events, moderation>>
  \/ \E p \in Procs : InsertSubmission(p) /\ UNCHANGED <<hashing, parsing, events, moderation>>
  \/ \E p \in Procs : CloseSuccess(p) /\ UNCHANGED <<hashing, parsing, events, moderation>>
  \/ \E p \in Procs : CloseFailed(p) /\ UNCHANGED <<hashing, parsing, events, moderation>>

ConcSpec == Init /\ [][ConcNext]_vars

\* ---------------------------------------------------- checksum on its own
ScalarValues == {<<"s", "v1">>, <<"s", "v2">>}

\* the dicts of at most n fields with keys from K and values from V, in
\* every insertion order
OrderedDicts(K, V, n) ==
  {d \in SeqsUpTo(K \X V, n) :
     \A i, j \in 1..Len(d) : d[i][1] = d[j][1] => i = j}

NestedDicts == OrderedDicts({"x", "y"}, {<<"s", "v1">>}, MaxFields)

Payloads ==
  OrderedDicts({"a", "b"},
               ScalarValues \cup {<<"d", d>> : d \in NestedDicts}, MaxFields)

ChecksumInit ==
  /\ sources = {}
  /\ categories = <<>>
  /\ ingestions = <<>>
  /\ raw_items = <<>>
  /\ submissions = <<>>
  /\ places = <<>>
  /\ pc = [p \in Procs |-> "idle"]
  /\ req = [p \in Procs |-> NoReq]
  /\ loc = [p \in Procs |-> NoLoc]
  /\ resp = [p \in Procs |-> NoResp]
  /\ calls = 0
  /\ events = <<>>
  /\ moderation = [m \in Moderators |-> NoModeration]
  /\ parsing = NoParsing
  /\ \E d1, d2 \in Payloads :
       hashing = [first |-> d1, second |-> d2, sums |-> <<>>]

\* one run computes the checksum of the first payload
ChecksumFirst ==
  /\ Len(hashing.sums) = 0
  /\ hashing' = [hashing EXCEPT !.sums = <<checksum(hashing.first)>>]
  /\ UNCHANGED <<store, pc, req, loc, resp, calls, parsing, events, moderation>>

\* another run computes the checksum of the second payload
ChecksumSecond ==
  /\ Len(hashing.sums) = 1
  /\ hashing' = [hashing EXCEPT !.sums = Append(@, checksum(hashing.second))]
  /\ UNCHANGED <<store, pc, req, loc, resp, calls, parsing, events, moderation>>

ChecksumNext == ChecksumFirst \/ ChecksumSecond

ChecksumSpec == ChecksumInit /\ [][ChecksumNext]_vars

\* ------------------------------------------------- parse_dice_date on its own
\* A date text is a sequence of tokens: a number, a word or the dash.
Num(n) == [kind |-> "num", n |-> n, w |-> ""]
Word(w) == [kind |-> "word", n |-> 0, w |-> w]
Dash == [kind |-> "dash", n |-> 0, w |-> "-"]

\* tokens[-1][:3] of the lower-cased words used here
Prefix3(w) ==
  CASE w = "dicembre" -> "dic"
    [] w = "february" -> "feb"
    [] OTHER -> w

\* MONTHS.get(prefix); 0 stands for the missing key
MONTHS(prefix) ==
  CASE prefix \in {"jan", "gen"} -> 1
    [] prefix = "feb" -> 2
    [] prefix = "mar" -> 3
    [] prefix \in {"dec", "dic"} -> 12
    [] OTHER -> 0

IsLeap(y) == y % 4 = 0 /\ (y % 100 # 0 \/ y % 400 = 0)

DaysIn(y, m) ==
  CASE m = 2 -> IF IsLeap(y) THEN 29 ELSE 28
    [] m \in {4, 6, 9, 11} -> 30
    [] OTHER -> 31

RECURSIVE DaysBeforeMonth(_, _)
DaysBeforeMonth(y, m) ==
  IF m = 1 THEN 0 ELSE DaysBeforeMonth(y, m - 1) + DaysIn(y, m - 1)

RECURSIVE DaysBeforeYear(_)
DaysBeforeYear(y) ==
  IF y <= 2000 THEN 0
  ELSE DaysBeforeYear(y - 1) + (IF IsLeap(y - 1) THEN 366 ELSE 365)

\* the instant of a date, in hours
Hours(t) == 24 * (DaysBeforeYear(t.y) + DaysBeforeMonth(t.y, t.m) + t.d - 1) + t.h

\* dt + relativedelta(years=1): the day is clamped to the month's length
PlusOneYear(t) ==
  [t EXCEPT !.y = @ + 1,
            !.d = IF t.d > DaysIn(t.y + 1, t.m) THEN DaysIn(t.y + 1, t.m) ELSE t.d]

\* text.lower().split("-")[0].split(): the tokens before the first dash
RECURSIVE BeforeDash(_)
BeforeDash(text) ==
  IF text = <<>> \/ Head(text).kind = "dash" THEN <<>>
  ELSE <<Head(text)>> \o BeforeDash(Tail(text))

\* a projection that leaves the date in the current year
parse_dice_date_same_year(text, now) ==
  LET tokens == BeforeDash(text) IN
  IF Len(tokens) < 2 \/ tokens[Len(tokens) - 1].kind # "num" THEN NoDate
  ELSE LET day == tokens[Len(tokens) - 1].n
           month == MONTHS(Prefix3(tokens[Len(tokens)].w))
       IN IF month = 0 \/ day < 1 \/ day > DaysIn(now.y, month) THEN NoDate
          ELSE [y |-> now.y, m |-> month, d |-> day, h |-> 21]

\* parse_dice_date(text, timezone), with now = datetime.now(tz)
parse_dice_date(text, now) ==
  IF text = <<>> THEN NoDate
  ELSE
  LET tokens == BeforeDash(text) IN
  IF Len(tokens) < 2 THEN NoDate
  ELSE IF tokens[Len(tokens) - 1].kind # "num" THEN NoDate  \* int() raises
  ELSE LET day == tokens[Len(tokens) - 1].n
           month == MONTHS(Prefix3(tokens[Len(tokens)].w))
       IN IF month = 0 THEN NoDate
          ELSE IF day < 1 \/ day > DaysIn(now.y, month) THEN NoDate  \* datetime() raises
          ELSE LET dt == [y |-> now.y, m |-> month, d |-> day, h |-> 21]
               IN IF Hours(dt) < Hours(now) - 24 THEN PlusOneYear(dt) ELSE dt

Years == {2027, 2028}

\* the moments a run may parse at
Nows ==
  {t \in [y : Years, m : {1, 2, 3, 12}, d : {1, 28, 29, 31}, h : {20, 22}] :
     t.d <= DaysIn(t.y, t.m)}

DayTokens == {Num(n) : n \in {0, 1, 2, 27, 28, 29, 30, 31, 32}}

MonthTokens == {Word(w) : w \in {"jan", "february", "mar", "dicembre", "xyz"}}

\* the date texts of a card: day and month, with or without weekday or a
\* range after a dash, and the texts that are no date
DateTexts ==
  {<<>>, <<Word("tonight")>>, <<Num(5)>>}
    \cup {<<n, w>> : n \in DayTokens, w \in MonthTokens}
    \cup {<<Word("sat"), n, w>> : n \in DayTokens, w \in MonthTokens}
    \cup {<<w, n>> : n \in DayTokens, w \in MonthTokens}
    \cup {<<n, w, Dash, Num(30), Word("xyz")>> : n \in DayTokens, w \in MonthTokens}

DateInit ==
  /\ sources = {}
  /\ categories = <<>>
  /\ ingestions = <<>>
  /\ raw_items = <<>>
  /\ submissions = <<>>
  /\ places = <<>>
  /\ pc = [p \in Procs |-> "idle"]
  /\ req = [p \in Procs |-> NoReq]
  /\ loc = [p \in Procs |-> NoLoc]
  /\ resp = [p \in Procs |-> NoResp]
  /\ calls = 0
  /\ events = <<>>
  /\ moderation = [m \in Moderators |-> NoModeration]
  /\ hashing = NoHashing
  /\ \E text \in DateTexts, now \in Nows :
       parsing = [NoParsing EXCEPT !.fn = "date", !.text = text, !.now = now]

\* the adapter projects the date text of a card
ParseDate ==
  /\ parsing.fn = "date" /\ ~parsing.done
  /\ parsing' = [parsing EXCEPT !.done = TRUE,
                                !.date = parse_dice_date(parsing.text, parsing.now)]
  /\ UNCHANGED <<store, pc, req, loc, resp, calls, hashing, events, moderation>>

DateNext == ParseDate

DateSpec == DateInit /\ [][DateNext]_vars

\* ----------------------------------------------------- price parsers on their own
\* A price text is a sequence of tokens: a word, or a number (in euros) with
\* or without the euro sign before it.
Amount(n, euro) == [kind |-> "num", n |-> n, w |-> IF euro THEN "euro" ELSE ""]

\* text.lower() on the words used here
Lower(w) ==
  CASE w \in {"Gratis", "GRATIS"} -> "gratis"
    [] w \in {"Free", "FREE"} -> "free"
    [] OTHER -> w

\* re.findall(r"\d+(?:[.,]\d+)?", text) as floats, in order
RECURSIVE Numbers(_)
Numbers(text) ==
  IF text = <<>> THEN <<>>
  ELSE (IF Head(text).kind = "num" THEN <<Head(text).n>> ELSE <<>>)
         \o Numbers(Tail(text))

Range(seq) == {seq[i] : i \in DOMAIN seq}

Min(S) == CHOOSE x \in S : \A y \in S : x <= y

Max(S) == CHOOSE x \in S : \A y \in S : x >= y

\* "gratis" in t or "free" in t
MentionsFree(text) ==
  \E i \in DOMAIN text : text[i].kind = "word" /\ Lower(text[i].w) \in {"gratis", "free"}

\* ingestions_dice.parse_price
parse_price(text) ==
  IF text = <<>> THEN <<>>
  ELSE IF MentionsFree(text) THEN <<0, 0>>
  ELSE LET nums == Numbers(text)
       IN IF nums = <<>> THEN <<>> ELSE <<Min(Range(nums)), Max(Range(nums))>>

\* ingestions_xceed.parse_prices
parse_prices(text) ==
  IF text = <<>> THEN <<>>
  ELSE LET prices == Numbers(text)
       IN IF prices = <<>> THEN <<>> ELSE <<Min(Range(prices)), Max(Range(prices))>>

\* re.search(r"€\s?([\d.,]+)", ...): the first number with a euro sign before it
RECURSIVE FirstEuro(_)
FirstEuro(text) ==
  IF text = <<>> THEN <<>>
  ELSE IF Head(text).kind = "num" /\ Head(text).w = "euro" THEN <<Head(text).n>>
  ELSE FirstEuro(Tail(text))

\* ingestions_eventbrite.extract_price on the text of the conversion bar
extract_price(text) ==
  LET m == FirstEuro(text)
  IN IF m = <<>> THEN <<>> ELSE <<m[1], m[1]>>

PriceAdapters == {"dice", "xceed", "eventbrite"}

PriceParser(a, text) ==
  CASE a = "dice" -> parse_price(text)
    [] a = "xceed" -> parse_prices(text)
    [] OTHER -> extract_price(text)

PriceTokens ==
  {Word(w) : w \in {"Gratis", "free", "FREE", "da"}}
    \cup {Amount(n, e) : n \in {10, 25}, e \in BOOLEAN}

MaxPriceTokens == 3

PriceTexts == SeqsUpTo(PriceTokens, MaxPriceTokens)

PriceInit ==
  /\ sources = {}
  /\ categories = <<>>
  /\ ingestions = <<>>
  /\ raw_items = <<>>
  /\ submissions = <<>>
  /\ places = <<>>
  /\ pc = [p \in Procs |-> "idle"]
  /\ req = [p \in Procs |-> NoReq]
  /\ loc = [p \in Procs |-> NoLoc]
  /\ resp = [p \in Procs |-> NoResp]
  /\ calls = 0
  /\ events = <<>>
  /\ moderation = [m \in Moderators |-> NoModeration]
  /\ hashing = NoHashing
  /\ \E a \in PriceAdapters, text \in PriceTexts :
       parsing = [NoParsing EXCEPT !.fn = "price", !.adapter = a, !.text = text]

\* the adapter parses the price text of a candidate
ParsePrice ==
  /\ parsing.fn = "price" /\ ~parsing.done
  /\ parsing' = [parsing EXCEPT !.done = TRUE,
                                !.price = PriceParser(parsing.adapter, parsing.text)]
  /\ UNCHANGED <<store, pc, req, loc, resp, calls, hashing, events, moderation>>

PriceNext == ParsePrice

PriceSpec == PriceInit /\ [][PriceNext]_vars

TypeOK ==
  /\ pc \in [Procs -> {"idle", "city", "source", "create_source", "start",
                       "fetch", "dedup", "loop", "detail", "raw", "sub",
                       "category", "place", "get_category", "create_category",
                       "close_ok", "close_failed", "done"}]
  /\ \A k \in 1..Len(ingestions) :
       ingestions[k].status \in {"running", "success", "failed"}

\* =============================================================== claims
SubIds == 1..Len(submissions)
RawIds == 1..Len(raw_items)
RunIds == 1..Len(ingestions)

SameKey(r1, r2) ==
  r1.source = r2.source /\ r1.city = r2.city /\ r1.source_url = r2.source_url

\* the candidates an invocation has already been through
Seen(p) == 1..(loc[p].i - 1)

\* ------------------------------------------------------------------ C1
\* C1 (as stated): after two invocations that do not overlap, at most one
\* Submission row exists for any (source, city, source URL).
C1_AtMostOneSubmissionPerUrl ==
  (calls >= 2 /\ \A p \in Procs : Free(p)) =>
    \A j, k \in SubIds : SameKey(submissions[j], submissions[k]) => j = k

\* ------------------------------------------------------------------ C2
TitlelessSeen(p) == {j \in Seen(p) : loc[p].items[j].title = NoTitle}

InCandidate(p) == pc[p] \in {"detail", "raw", "sub"}

C3_RunStateInvariant ==
  \A k \in RunIds :
    /\ ingestions[k].status = "failed" <=> ingestions[k].error # Null
    /\ ingestions[k].ended_at # Null <=>
         ingestions[k].status \in {"success", "failed"}

\* a run was marked failed after its success write was rejected, while
\* another invocation's run stayed running because its closing write was
\* rejected too
C3_Witness ==
  /\ \E k \in RunIds :
       ingestions[k].status = "failed" /\ ingestions[k].error = "CloseWriteError"
  /\ \E p \in Procs :
       /\ pc[p] = "done" /\ loc[p].e # Null
       /\ loc[p].ingestion_id \in RunIds
       /\ ingestions[loc[p].ingestion_id].status = "running"

\* ------------------------------------------------------------------ C4
\* C4: a run row is created running with no ended_at and no error; a row
\* changes only from running to success or failed, with ended_at set; a row
\* that is success or failed never changes again; no row disappears.
C4_SingleTerminalTransition ==
  [][ /\ Len(ingestions') >= Len(ingestions)
      /\ \A k \in RunIds :
           /\ ingestions[k].status # "running" => ingestions'[k] = ingestions[k]
           /\ ingestions'[k] # ingestions[k] =>
                /\ ingestions'[k].status \in {"success", "failed"}
                /\ ingestions'[k].ended_at # Null
      /\ \A k \in (Len(ingestions) + 1)..Len(ingestions') :
           /\ ingestions'[k].status = "running"
           /\ ingestions'[k].ended_at = Null
           /\ ingestions'[k].error = Null ]_vars

\* one run ended success and another ended failed
C4_Witness ==
  /\ \E k \in RunIds : ingestions[k].status = "success"
  /\ \E k \in RunIds : ingestions[k].status = "failed"

\* ------------------------------------------------------------------ C5
HasTitleAndIsNew(p, j) ==
  /\ loc[p].items[j].title # NoTitle
  /\ loc[p].items[j].source_url \notin loc[p].existing

Listed(p) == 1..Len(loc[p].items)

WrittenBy(run) == {k \in SubIds : submissions[k].ingestion_id = run}

\* C5: the summary of a list run has found = the number of listed
\* candidates, skipped = those without title or already among the existing
\* submissions, inserted = the others minus those that raised (errors), so
\* with no exception inserted = the titled new candidates and errors = 0;
\* inserted is the number of Submissions the run wrote.
C5_ListRunCounters ==
  \A p \in Procs :
    (Adapter(p) = "dice" /\ pc[p] = "done" /\ resp[p].kind = "summary") =>
      /\ resp[p].found = Len(loc[p].items)
      /\ resp[p].skipped =
           Cardinality({j \in Listed(p) : ~HasTitleAndIsNew(p, j)})
      /\ resp[p].inserted + resp[p].errors =
           Cardinality({j \in Listed(p) : HasTitleAndIsNew(p, j)})
      /\ resp[p].inserted = Cardinality(WrittenBy(loc[p].ingestion_id))

\* three listed, one without title, one duplicate of an existing
\* submission: found=3, inserted=1, skipped=2, errors=0
C5_Witness ==
  \E p \in Procs :
    /\ Adapter(p) = "dice" /\ pc[p] = "done"
    /\ resp[p] = [kind |-> "summary", code |-> 200, found |-> 3,
                  inserted |-> 1, skipped |-> 2, errors |-> 0]
    /\ \E j \in Listed(p) : loc[p].items[j].title = NoTitle
    /\ \E j \in Listed(p) :
         /\ loc[p].items[j].title # NoTitle
         /\ loc[p].items[j].source_url \in loc[p].existing

\* ------------------------------------------------------------------ C6
Geodata(p) == Adapter(p) \in {"osm", "places_osm"}

PlacesOf(c) == {k \in 1..Len(places) : places[k].city = c}

\* C6 (as stated): a geodata invocation for an existing city without
\* centroid, whose source row exists, ends with its run failed and an error
\* text, and no place of that city is written.
C6_NullCentroidRunFails ==
  \A p \in Procs :
    ( /\ Geodata(p) /\ pc[p] = "done"
      /\ City(p) \in CityRows /\ ~HasCentroid(City(p))
      /\ SOURCE_NAME(Adapter(p)) \in sources ) =>
        /\ PlacesOf(City(p)) = {}
        /\ \E k \in RunIds :
             /\ ingestions[k].source = SOURCE_NAME(Adapter(p))
             /\ ingestions[k].city = City(p)
             /\ ingestions[k].status = "failed"
             /\ ingestions[k].error # Null

\* ------------------------------------------------------------------ C7
BetweenCandidates(p) == pc[p] \notin {"detail", "raw", "sub", "category", "place"}

\* C7 (as stated): whenever no candidate is being processed, every
\* raw_items row an event adapter wrote has the Submission of its candidate
\* beside it.
C7_PairWrittenTogether ==
  (\A p \in Procs : BetweenCandidates(p)) =>
    \A r \in RawIds :
      raw_items[r].source \in {SOURCE_NAME(a) : a \in EventAdapters} =>
        \E k \in SubIds :
          /\ submissions[k].source = raw_items[r].source
          /\ submissions[k].city = raw_items[r].city
          /\ submissions[k].source_url = raw_items[r].url

\* ------------------------------------------------------------------ C8
\* C8: whenever a Submission is inserted, a raw_items row of the same
\* source, city and URL is already in the store, and the new row's
\* ingestion_id is the id of the inserting invocation's run, which is still
\* running.
C8_AuditPrecedesVisibility ==
  [][ Len(submissions') > Len(submissions) =>
        LET s == submissions'[Len(submissions')] IN
        /\ Len(submissions') = Len(submissions) + 1
        /\ \E p \in Procs :
             /\ pc[p] = "sub"
             /\ s.ingestion_id = loc[p].ingestion_id
        /\ s.ingestion_id \in RunIds
        /\ ingestions[s.ingestion_id].status = "running"
        /\ ingestions[s.ingestion_id].source = s.source
        /\ ingestions[s.ingestion_id].city = s.city
        /\ \E r \in RawIds :
             /\ raw_items[r].source = s.source
             /\ raw_items[r].city = s.city
             /\ raw_items[r].url = s.source_url ]_vars

\* a Submission is in the store with its raw_items row and its run,
\* which has ended success
C8_Witness ==
  \E k \in SubIds : \E r \in RawIds :
    /\ raw_items[r].url = submissions[k].source_url
    /\ raw_items[r].source = submissions[k].source
    /\ submissions[k].ingestion_id \in RunIds
    /\ ingestions[submissions[k].ingestion_id].status = "success"

\* ------------------------------------------------------------------ C9
\* C9 (as stated): in a list run every candidate passed is counted once and
\* the loop goes on after a candidate raised; the run is marked failed only
\* by an exception of the page fetch or of the dedup query.
C9_OnlyEntryFailuresFailRun ==
  /\ \A p \in Procs :
       (Adapter(p) = "dice" /\ pc[p] \in {"loop", "close_ok"}) =>
         loc[p].inserted + loc[p].skipped + loc[p].errors = Cardinality(Seen(p))
  /\ \A k \in RunIds :
       (ingestions[k].source = "dice" /\ ingestions[k].status = "failed") =>
         ingestions[k].error \in {"FetchError", "RetryError", "DedupQueryError"}

\* ----------------------------------------------------------------- C10
\* C10 (as stated): a rejected per-candidate write never marks the run
\* failed, and the caller of an invocation whose per-candidate write or
\* run-closing write was rejected still receives the summary.
C10_StoreFailuresContained ==
  /\ \A k \in RunIds : ingestions[k].error # "InsertError"
  /\ \A p \in Procs :
       (pc[p] = "done" /\ loc[p].e \in {"InsertError", "CloseWriteError"}) =>
         resp[p].kind = "summary"

\* ----------------------------------------------------------------- C11
\* C11 (as stated): the detail fetch of a list candidate never ends the
\* candidate: whatever the fetch returns, the candidate goes on to its
\* writes, errors does not change and the run is not aborted.
C11_DetailFailureDegrades ==
  [][ \A p \in Procs :
        (pc[p] = "detail" /\ pc'[p] # "detail") =>
          /\ pc'[p] = "raw"
          /\ loc'[p].errors = loc[p].errors
          /\ loc'[p].i = loc[p].i ]_vars

\* ----------------------------------------------------------------- C12
\* C12: the dedup check is read once per run: a Submission is inserted
\* exactly when its URL is not in the set the inserting run read, whatever
\* the store holds by then, so overlapping runs of one source and city can
\* each insert the same URL (the witness).
C12_DedupReadOncePerRun ==
  [][ \A p \in Procs :
        (pc[p] = "sub" /\ pc'[p] # "sub"
           /\ Len(submissions') > Len(submissions)) =>
          /\ Item(p).source_url \notin loc[p].existing
          /\ submissions' = Append(submissions,
               SubmissionRow(Adapter(p), City(p), Item(p), loc[p].ingestion_id)) ]_vars

\* two runs of one source and city have each inserted a Submission for the
\* same URL, neither saw it among the existing ones, and raw_items holds
\* two rows for it
C12_Witness ==
  /\ \E j, k \in SubIds :
       /\ j # k
       /\ SameKey(submissions[j], submissions[k])
       /\ submissions[j].ingestion_id # submissions[k].ingestion_id
  /\ \E p, q \in Procs :
       /\ p # q
       /\ Adapter(p) = Adapter(q)
       /\ loc[p].existing = {} /\ loc[q].existing = {}
       /\ loc[p].inserted >= 1 /\ loc[q].inserted >= 1
  /\ \E j, k \in RawIds :
       /\ j # k
       /\ raw_items[j].source = raw_items[k].source
       /\ raw_items[j].city = raw_items[k].city
       /\ raw_items[j].url = raw_items[k].url

\* ----------------------------------------------------------------- C13
PastResolution(p) == pc[p] \notin {"idle", "city", "source", "done"}

\* C13 (as stated): an invocation naming a city without row ends with a
\* client error and without a run; no invocation goes past the resolution
\* of its source while the source row is missing; and no invocation holds a
\* candidate past its first write while the category it needs is missing.
C13_MissingReferenceAbortsBeforeWrite ==
  \A p \in Procs :
    /\ (pc[p] = "done" /\ UrlAccepted(Adapter(p), req[p].url)
        /\ City(p) \notin CityRows) =>
         /\ resp[p].kind = "http_error"
         /\ resp[p].code \in {400, 404}
         /\ loc[p].ingestion_id = NoRun
    /\ PastResolution(p) => SOURCE_NAME(Adapter(p)) \in sources
    /\ (Adapter(p) = "osm" /\ pc[p] = "category") =>
         CategoryIds(map_category(Item(p))) # {}

\* ----------------------------------------------------------------- C14
Synchronous(p) == Adapter(p) \in Adapters \ {"places_osm"}

RunOf(p) == ingestions[loc[p].ingestion_id]

FetchingOrWriting(p) ==
  pc[p] \in {"fetch", "dedup", "loop", "detail", "raw", "sub", "category",
             "place", "get_category", "create_category", "close_ok",
             "close_failed"}

\* C15 (as stated): an invocation that is fetching or writing candidates
\* has a run record of its source and city, and there are never more run
\* rows than invocations.
C15_OneRunPerInvocation ==
  /\ Len(ingestions) <= calls
  /\ \A p \in Procs :
       FetchingOrWriting(p) =>
         /\ loc[p].ingestion_id \in RunIds
         /\ ingestions[loc[p].ingestion_id].source = SOURCE_NAME(Adapter(p))
         /\ ingestions[loc[p].ingestion_id].city = City(p)

\* ----------------------------------------------------------------- C16
\* C16 (as stated): no fetch uses more than RetryTotal retries; a transient
\* status is never raised by an adapter without the retries having been
\* spent; and an entry fetch that failed for good has a run record, not
\* ended success, to carry the failure.
C16_EveryFetchRetriesTransient ==
  \A p \in Procs :
    /\ loc[p].attempts <= RetryTotal
    /\ loc[p].e # "HTTP503"
    /\ (pc[p] = "done" /\ loc[p].e \in {"FetchError", "RetryError", "AntiBot403"}) =>
         /\ loc[p].ingestion_id \in RunIds
         /\ RunOf(p).status # "success"

SourceMissingRejected ==
  \A p \in Procs :
    (Synchronous(p) /\ pc[p] = "done" /\ UrlAccepted(Adapter(p), req[p].url)
     /\ City(p) \in CityRows /\ SOURCE_NAME(Adapter(p)) \notin sources) =>
      /\ resp[p] = HttpError(400)
      /\ loc[p].ingestion_id = NoRun

C18_CreatedAsDraft ==
  \A k \in SubIds :
    submissions[k].ingestion_id \in RunIds => submissions[k].status = "draft"

\* ----------------------------------------------------------------- C19
PlaceIds == 1..Len(places)

\* C19 (as stated): every Submission and every place written carries an
\* integer confidence in 0..100, and two records of the same source carry
\* the same one (all places are of the source openstreetmap).
C19_ConfidenceStaticPerSource ==
  /\ \A k \in SubIds : submissions[k].confidence \in 0..100
  /\ \A j, k \in SubIds :
       submissions[j].source = submissions[k].source =>
         submissions[j].confidence = submissions[k].confidence
  /\ \A k \in PlaceIds :
       \E n \in 0..100 : places[k].source_confidence = {n}
  /\ \A j, k \in PlaceIds :
       places[j].source_confidence = places[k].source_confidence

\* ----------------------------------------------------------------- C20
\* equality of two dicts as Python compares them: the same keys, each
\* mapped to an equal value, whatever the insertion order
RECURSIVE DictEq(_, _)
DictEq(d1, d2) ==
  /\ KeysOf(d1) = KeysOf(d2)
  /\ \A k \in KeysOf(d1) :
       LET v1 == ValueAt(d1, k)
           v2 == ValueAt(d2, k)
       IN IF v1[1] = "d" /\ v2[1] = "d"
          THEN DictEq(v1[2], v2[2])
          ELSE v1 = v2

\* C20: once both checksums are computed, payloads with the same keys and
\* values have the same checksum whatever the insertion order, and payloads
\* differing in a key or a value were hashed from different canonical texts.
C20_ChecksumDeterminism ==
  Len(hashing.sums) = 2 =>
    /\ DictEq(hashing.first, hashing.second) =>
         hashing.sums[1] = hashing.sums[2]
    /\ ~DictEq(hashing.first, hashing.second) =>
         json_dumps(hashing.first) # json_dumps(hashing.second)
    /\ hashing.sums[1] = checksum(hashing.first)

\* two payloads with the same fields inserted in different orders, one of
\* them a nested dict, have been hashed
C20_Witness ==
  /\ Len(hashing.sums) = 2
  /\ hashing.first # hashing.second
  /\ DictEq(hashing.first, hashing.second)
  /\ \E i \in 1..Len(hashing.first) :
       /\ hashing.first[i][2][1] = "d"
       /\ Len(hashing.first[i][2][2]) = 2

\* ----------------------------------------------------------------- C21
\* the day and month a text states when it is <<day, month>> with a known
\* month word, or <<weekday, day, month>>
StatesDayMonth(text) ==
  /\ Len(text) \in {2, 3}
  /\ text[Len(text) - 1].kind = "num"
  /\ text[Len(text)].w \in {"jan", "february", "mar", "dicembre"}

StatedMonth(text) ==
  CASE text[Len(text)].w = "jan" -> 1
    [] text[Len(text)].w = "february" -> 2
    [] text[Len(text)].w = "mar" -> 3
    [] OTHER -> 12

\* C21: a text stating a day and month that exist in the current year is
\* resolved to that day and month at 21:00, in the current year unless that
\* moment is more than one day before now, and then in the next year; the
\* resolved start is never more than one day before now; any other text
\* yields None.
C21_DateProjection ==
  parsing.done =>
    LET text == parsing.text
        now == parsing.now
        out == parsing.date
    IN IF StatesDayMonth(text)
          /\ text[Len(text) - 1].n \in 1..DaysIn(now.y, StatedMonth(text))
       THEN LET here == [y |-> now.y, m |-> StatedMonth(text),
                         d |-> text[Len(text) - 1].n, h |-> 21]
            IN /\ out # NoDate
               /\ out.m = here.m /\ out.h = 21
               /\ Hours(out) >= Hours(now) - 24
               /\ IF Hours(here) < Hours(now) - 24
                  THEN /\ out.y = now.y + 1
                       /\ out.d = (IF here.d > DaysIn(out.y, out.m)
                                   THEN DaysIn(out.y, out.m) ELSE here.d)
                  ELSE out = here
       ELSE (Len(text) <= 3 \/ ~StatesDayMonth(SubSeq(text, 1, 2))) => out = NoDate

\* a date of last winter was moved to next year, from a leap day
C21_Witness ==
  /\ parsing.done
  /\ parsing.text = <<Num(29), Word("february")>>
  /\ parsing.now = [y |-> 2028, m |-> 12, d |-> 1, h |-> 20]
  /\ parsing.date = [y |-> 2029, m |-> 2, d |-> 28, h |-> 21]

\* ----------------------------------------------------------------- C22
\* C22: for every adapter that parses prices, a text mentioning "gratis" or
\* "free" in any case gives (0, 0), a text with numbers gives the smallest
\* and the largest of them, and a text with neither gives (None, None).
C22_PriceParsing ==
  parsing.fn = "price" /\ parsing.done =>
    parsing.price =
      (IF MentionsFree(parsing.text) THEN <<0, 0>>
       ELSE IF Numbers(parsing.text) = <<>> THEN <<>>
       ELSE <<Min(Range(Numbers(parsing.text))), Max(Range(Numbers(parsing.text)))>>)

\* the claim's statement for the list adapter alone
C22_DicePriceParsing == parsing.adapter = "dice" => C22_PriceParsing

\* both bounds are None or both are set, the lower not above the upper
C22_BothOrNeither ==
  parsing.fn = "price" /\ parsing.done =>
    parsing.price = <<>> \/ (Len(parsing.price) = 2 /\ parsing.price[1] <= parsing.price[2])

\* ----------------------------------------------------------------- C23
\* the slug a geodata adapter maps the current element to
MappedSlug(p) ==
  IF Adapter(p) = "osm" THEN map_category(Item(p)) ELSE places_map_category(Item(p))

\* C23: the category a geodata run resolves for an element is a row of type
\* place with the element's mapped slug, and no slug has two category rows
\* created by the resolver.
C23_PlaceTaxonomyResolved ==
  /\ \A p \in Procs :
       pc[p] = "place" =>
         /\ categories[loc[p].category_id].slug = MappedSlug(p)
         /\ categories[loc[p].category_id].type = "place"
  /\ \A slug \in {"bar", "pub", "cafe", "restaurant", "fast-food", "nightclub"} :
       Cardinality({k \in CategoryIds(slug) :
                      categories[k].name = CategoryName(slug)}) <= 1

\* the claim's statement while no administrator has added categories
C23_ResolverAlone ==
  (\A k \in 1..Len(categories) : categories[k].name # "Serata")
    => C23_PlaceTaxonomyResolved

\* ----------------------------------------------------------------- C24
\* the raw_items rows written for the candidate of a submission
RawRowsOf(k) ==
  {r \in RawIds : /\ raw_items[r].source = submissions[k].source
                  /\ raw_items[r].city = submissions[k].city
                  /\ raw_items[r].url = submissions[k].source_url}

\* C24: the source_payload of every Submission is the payload document of
\* the raw_items row written for its candidate, and the checksum of every
\* raw_items row is the checksum of the payload document it stores.
C24_PayloadTraceable ==
  /\ \A k \in SubIds :
       \E r \in RawRowsOf(k) : submissions[k].source_payload = raw_items[r].payload
  /\ \A r \in RawIds :
       raw_items[r].checksum = checksum(Dict(raw_items[r].payload))

\* the claim's statement for the adapters other than xceed
C24_TraceableOutsideXceed ==
  /\ \A k \in SubIds :
       submissions[k].source # "xceed" =>
         \E r \in RawRowsOf(k) : submissions[k].source_payload = raw_items[r].payload
  /\ \A r \in RawIds :
       raw_items[r].source # "xceed" =>
         raw_items[r].checksum = checksum(Dict(raw_items[r].payload))

\* ----------------------------------------------------------------- C25
\* the rows a table held are still there, unchanged, under the same ids
Kept(rows, rowsAfter) ==
  /\ Len(rowsAfter) >= Len(rows)
  /\ \A k \in 1..Len(rows) : rowsAfter[k] = rows[k]

\* C25: no step of an ingest operation updates or deletes a raw_items or
\* submissions row: the rows present before the step are present after it,
\* unchanged, promoted ones included, whether the run succeeds or fails.
C25_IngestOnlyAppends ==
  [][moderation' = moderation =>
       Kept(submissions, submissions') /\ Kept(raw_items, raw_items')]_vars

\* a later run has written its own submission, and later failed, next to a
\* submission of the first run that was promoted before it began
C25_Witness ==
  /\ Len(ingestions) = 2
  /\ ingestions[2].status = "failed"
  /\ \E k, j \in SubIds :
       /\ submissions[k].ingestion_id = 1
       /\ submissions[k].status = "promoted"
       /\ submissions[j].ingestion_id = 2

\* ----------------------------------------------------------------- C26
\* C26: the Submissions one run of the list adapter inserted have pairwise
\* different source URLs, so a URL the page lists twice is inserted once.
C26_NoDuplicateWithinRun ==
  \A run \in RunIds :
    ingestions[run].source = SOURCE_NAME("dice") =>
      \A j, k \in WrittenBy(run) :
        submissions[j].source_url = submissions[k].source_url => j = k

\* ----------------------------------------------------------------- C27
Counters(l) == l.inserted + l.skipped + l.errors

InLoop(p) ==
  pc[p] \in {"loop", "detail", "raw", "sub", "category", "place",
             "get_category", "create_category", "close_ok"}

\* at every point of the candidate loop the three counters add up to the
\* candidates gone through, and a returned found is their sum
C27_CountersAddUp ==
  /\ \A p \in Procs : InLoop(p) => Counters(loc[p]) = loc[p].i - 1
  /\ \A p \in Procs :
       resp[p].kind = "summary" /\ Adapter(p) \in {"dice", "xceed"} =>
         /\ resp[p].found = resp[p].inserted + resp[p].skipped + resp[p].errors
         /\ resp[p].inserted = loc[p].inserted

\* each count of inserted goes with one row added to submissions or places
C27_InsertedIsARowAdded ==
  \A p \in Procs :
    loc'[p].inserted = loc[p].inserted + 1 =>
      Len(submissions') + Len(places') = Len(submissions) + Len(places) + 1

\* C27: inserted + skipped + errors is the number of candidates processed
\* at every point of the loop, found is their sum in the summary of a
\* successful run, and inserted counts exactly the rows the run added.
C27_CounterConservation ==
  []C27_CountersAddUp /\ [][C27_InsertedIsARowAdded]_vars

\* ----------------------------------------------------------------- C28
\* C28: every run that is running eventually is success or failed, also
\* when the store rejects the write of the final status.
C28_RunsTerminate ==
  \A k \in 1..MaxCalls :
    (Len(ingestions) >= k /\ ingestions[k].status = "running")
      ~> (Len(ingestions) >= k /\ ingestions[k].status \in {"success", "failed"})

\* what holds: while its handler is executing, a running run goes on to
\* success or failed, or its handler ends raising after the store rejected
\* the write of failed, and the run then stays running
C28_RunsTerminateUnlessCloseRejected ==
  \A k \in 1..MaxCalls :
    (/\ Len(ingestions) >= k
     /\ ingestions[k].status = "running"
     /\ \E p \in Procs : ~Free(p) /\ loc[p].ingestion_id = k)
      ~> (/\ Len(ingestions) >= k
          /\ \/ ingestions[k].status \in {"success", "failed"}
             \/ \E p \in Procs : /\ pc[p] = "done"
                                 /\ loc[p].ingestion_id = k
                                 /\ resp[p].kind = "http_error")

\* ----------------------------------------------------------------- C29
\* the promote calls that created an event or a place from submission k
PromotionsOf(k) ==
  {m \in Moderators : moderation[m].id = k /\ moderation[m].entity # 0}

\* C29: whatever the promote calls and their interleaving, at most one of
\* them creates an entity from a given submission.
C29_PromotedAtMostOnce ==
  \A k \in SubIds : Cardinality(PromotionsOf(k)) <= 1

\* C29, second half: a promote call that finds the submission promoted
\* ends with an error and creates nothing.
C29_PromotedIsRefused ==
  [][\A m \in Moderators :
       /\ moderation[m].pc = "read"
       /\ moderation'[m].pc # "read"
       /\ moderation[m].id \in SubIds
       /\ submissions[moderation[m].id].status = "promoted"
       => moderation'[m].pc = "done" /\ moderation'[m].code >= 400]_vars

\* ----------------------------------------------------------------- C30
\* C30: geodata ingestion leaves at most one place row per (city, slug),
\* however often it runs over the same elements.
C30_OnePlacePerCitySlug ==
  \A j, k \in PlaceIds :
    places[j].city = places[k].city /\ places[j].slug = places[k].slug => j = k

\* the claim's statement for the places written by the background adapter's
\* upsert alone
C30_UpsertKeepsOnePerSlug ==
  (\A k \in PlaceIds : places[k].source_confidence = {}) => C30_OnePlacePerCitySlug

====
